---- MODULE Spec2Model ----
(***************************************************************************)
(* Model of pkg/otbuiltin/builtin.go: the Go binding over the ostree       *)
(* repository engine (OpenRepo, ResolveRev, PullWithOptions,               *)
(* enableTombstoneCommits, generateError).                                 *)
(*                                                                         *)
(* Go strings are byte sequences over Chars, where 0 is the NUL byte; a C  *)
(* string is what C code reads of it: the bytes before the first NUL.      *)
(* The engine (libostree / GLib) is the environment: every engine call     *)
(* picks its outcome nondeterministically among the outcomes the engine's  *)
(* interface allows.                                                       *)
(***************************************************************************)
EXTENDS Naturals, Sequences, FiniteSets

VARIABLES
    repo,      \* the handle the caller got from the last successful OpenRepo
    config,    \* core.tombstone-commits in the open repo's in-memory key file
    disk,      \* core.tombstone-commits in the persisted config file
    last,      \* record of the last operation that returned (none while
               \* a PullWithOptions call is in flight)
    pull,      \* the current / most recent PullWithOptions invocation
    crashed    \* the process was killed inside an engine call

vars == <<repo, config, disk, last, pull, crashed>>

(* ------------------------------ bounds -------------------------------- *)

MaxStrLen == 1
MaxRefs == 2

(* ------------------------------ strings ------------------------------- *)

Chars == {0, 1, 2}

GoStrings == UNION {[1..n -> Chars] : n \in 0..MaxStrLen}

RefLists == UNION {[1..n -> GoStrings] : n \in 0..MaxRefs}

\* Paths and refspecs the operations are called with: empty, a lone NUL,
\* plain, and one with an embedded NUL.
SomeStrings == {<<>>, <<0>>, <<1>>, <<2, 0, 1>>}

NulAt(s) == {i \in 1..Len(s) : s[i] = 0}

strlen(s) ==
    IF NulAt(s) = {} THEN Len(s)
    ELSE (CHOOSE i \in NulAt(s) : \A j \in NulAt(s) : i <= j) - 1

\* C.CString(s) as C code reads it: the bytes up to the first NUL.
CString(s) == SubSeq(s, 1, strlen(s))

\* A char* out-parameter is <<>> (NULL) or <<str>>; C.GoString(NULL) is "".
GoString(p) == IF p = <<>> THEN <<>> ELSE p[1]

(* ------------------------------- errors ------------------------------- *)

NoError == [origin |-> "nil", msg |-> "", sites |-> <<>>, wraps |-> 0]

errorsNew(text) == [origin |-> text, msg |-> text, sites |-> <<>>, wraps |-> 0]

\* Faulty variant of generateError: a missing GError is taken for success.
generateErrorNilIsSuccess(cerr, line, ok) ==
    IF cerr = <<>> THEN NoError
    ELSE [origin |-> "GError", msg |-> cerr[1],
          sites |-> IF ok THEN <<line>> ELSE <<>>, wraps |-> 1]

\* cerr is <<>> (no GError) or <<message>>; line is the caller's line that
\* runtime.Caller(1) reports, ok its success flag.
generateError(cerr, line, ok) ==
    IF cerr = <<>> THEN errorsNew("nil GError")
    ELSE [origin |-> "GError", msg |-> cerr[1],
          sites |-> IF ok THEN <<line>> ELSE <<>>, wraps |-> 1]

gobool(b) == b # 0

\* The results runtime.Caller(1) can give where an engine call answered
\* (ret, cerr): it is only asked when generateError formats a GError.
CallerOk(ret, cerr) == IF ~gobool(ret) /\ cerr # <<>> THEN BOOLEAN ELSE {TRUE}

(* ------------------------------- handles ------------------------------ *)

NilRepo == [isNil |-> TRUE, ptr |-> 0]

ZeroRepo == [isNil |-> FALSE, ptr |-> 0]

isInitialized(r) == ~(r.isNil \/ r.ptr = 0)

native(r) == IF ~isInitialized(r) THEN 0 ELSE r.ptr

repoFromNative(or) == IF or = 0 THEN NilRepo ELSE [isNil |-> FALSE, ptr |-> or]

\* The handles a caller can pass as receiver.
Handles == {NilRepo, ZeroRepo, repo}

(* ------------------------- the engine's answers ----------------------- *)

CfgValues == {"true", "false", "absent", "invalid"}

Checksums == {<<1, 2>>, <<2, 1>>}

RemoteNames == {<<2, 0>>}

Outcome(ret, cerr) ==
    [crash |-> FALSE, ret |-> ret, cerr |-> cerr, rev |-> <<>>, lookup |-> "none"]

\* ostree_repo_open: TRUE, or FALSE with a GError; FALSE without a GError is
\* the case generateError's nil check exists for.
OpenOutcomes ==
    {Outcome(1, <<>>), Outcome(0, <<"not a repository">>), Outcome(0, <<>>)}

\* ostree_repo_resolve_rev: the ref is found, absent, or the lookup faults.
\* Absent is TRUE with a NULL out_rev when allow_noent, FALSE with a GError
\* otherwise.
ResolveOutcomes(allowNoent) ==
    {[Outcome(1, <<>>) EXCEPT !.rev = <<c>>, !.lookup = "found"] : c \in Checksums}
    \cup {IF allowNoent
          THEN [Outcome(1, <<>>) EXCEPT !.lookup = "absent"]
          ELSE [Outcome(0, <<"not found">>) EXCEPT !.lookup = "absent"]}
    \cup {[Outcome(0, <<"io error">>) EXCEPT !.lookup = "fault"],
          [Outcome(0, <<>>) EXCEPT !.lookup = "fault"]}

\* ostree_repo_write_config.
WriteOutcomes ==
    {Outcome(1, <<>>), Outcome(0, <<"write failed">>), Outcome(0, <<>>)}

\* ostree_repo_pull_with_options on a valid repo.  A token that is triggered
\* when the engine looks at it makes the pull fail with G_IO_ERROR_CANCELLED.
PullOutcomes(token) ==
    IF token = "triggered"
    THEN {Outcome(0, <<"Operation was cancelled">>)}
    ELSE {Outcome(1, <<>>), Outcome(0, <<"transfer failed">>), Outcome(0, <<>>)}

\* An engine call whose self argument is NULL is undefined behaviour: the
\* process dies, or the call fails with or without a GError.
NullSelfOutcomes ==
    {[Outcome(0, <<>>) EXCEPT !.crash = TRUE],
     Outcome(0, <<>>), Outcome(0, <<"assertion failed">>)}

\* g_key_file_get_boolean(config, "core", "tombstone-commits", NULL): FALSE
\* with an error when the key is absent or its value does not parse.
g_key_file_get_boolean(cfg) ==
    [value  |-> IF cfg = "true" THEN 1 ELSE 0,
     failed |-> cfg \in {"absent", "invalid"},
     cerr   |-> IF cfg = "absent" THEN <<"key not found">>
                ELSE IF cfg = "invalid" THEN <<"invalid value">> ELSE <<>>]

OstreeRepoNew == 1

(* --------------------------- operation records ------------------------ *)

NoSession ==
    [id |-> 0, state |-> "None", recv |-> NilRepo, remote |-> <<>>,
     options |-> [OverrideRemoteName |-> <<>>, Refs |-> <<>>],
     request |-> <<>>, progress |-> 0, token |-> "nil", calls |-> 0,
     held |-> {}, outcome |-> Outcome(1, <<>>), err |-> NoError, path |-> <<>>]

SessionActive == pull.state \in {"Constructed", "Running"}

\* The record of an operation op on receiver recv that returns now.
Returned(op, recv) ==
    [op |-> op, recv |-> recv, err |-> NoError, out |-> <<>>, repo |-> NilRepo,
     carg |-> <<>>, trace |-> <<>>, acquired |-> {}, leaked |-> {}, fails |-> {},
     allowNoent |-> FALSE, lookup |-> "none", rev |-> <<>>, emptyPath |-> FALSE,
     prev |-> [op |-> last.op, recv |-> last.recv, trace |-> last.trace],
     before |-> <<config, disk>>]

\* No operation has returned: the state at start and during a pull.
NoCall(cfg, dsk) ==
    [op |-> "none", recv |-> NilRepo, err |-> NoError, out |-> <<>>, repo |-> NilRepo,
     carg |-> <<>>, trace |-> <<>>, acquired |-> {}, leaked |-> {}, fails |-> {},
     allowNoent |-> FALSE, lookup |-> "none", rev |-> <<>>, emptyPath |-> FALSE,
     prev |-> [op |-> "none", recv |-> NilRepo, trace |-> <<>>],
     before |-> <<cfg, dsk>>]

\* A PullWithOptions invocation exists only while the call runs and until the
\* caller's next call; id tells one invocation from the next.
SessionOver == [NoSession EXCEPT !.id = pull.id]

\* The error kind of the specification's taxonomy that error e, returned by
\* operation op, stands for.
Kind(op, e) ==
    CASE e.origin = "nil" -> "none"
      [] e.origin = "empty path" -> "InvalidArgument"
      [] e.origin = "repo not initialized" -> "NotInitialized"
      [] e.origin = "nil GError" -> "NilError"
      [] e.origin = "GError" /\ op = "OpenRepo" -> "OpenFailed"
      [] e.origin = "GError" /\ op = "ResolveRev" -> "ResolveFailed"
      [] e.origin = "GError" /\ op = "enableTombstoneCommits" -> "ConfigWriteFailed"
      [] e.origin = "GError" /\ op = "PullWithOptions" -> "PullFailed"

Init ==
    /\ repo = NilRepo
    /\ disk \in CfgValues
    /\ config = disk
    /\ pull = NoSession
    /\ crashed = FALSE
    /\ last = NoCall(disk, disk)

(* -------------------------------- OpenRepo ---------------------------- *)

\* Faulty variant of the path check: the empty path is let through.
OpenRepoCheckMissing(path) == FALSE

\* Line 75.
OpenRepoCheck(path) == path = <<>>

OpenRepo(path) ==
    /\ ~crashed
    /\ ~SessionActive
    /\ IF OpenRepoCheck(path)
       THEN /\ last' = [Returned("OpenRepo", NilRepo) EXCEPT
                            !.err = errorsNew("empty path"),
                            !.emptyPath = (path = <<>>)]
            /\ pull' = SessionOver
            /\ UNCHANGED <<repo, config, disk, crashed>>
       ELSE \E o \in OpenOutcomes : \E ok \in CallerOk(o.ret, o.cerr) :
            LET acquired == {"cpath", "repoPath", "crepo"}
                deferred == {"cpath", "repoPath"}
                r == repoFromNative(OstreeRepoNew)
                opened == gobool(o.ret)
            IN  /\ last' = [Returned("OpenRepo", NilRepo) EXCEPT
                                !.err = IF opened THEN NoError
                                        ELSE generateError(o.cerr, 89, ok),
                                !.repo = IF opened THEN r ELSE NilRepo,
                                !.carg = CString(path),
                                !.emptyPath = (path = <<>>),
                                !.trace = <<"ostree_repo_new", "ostree_repo_open">>,
                                !.acquired = acquired,
                                !.leaked = IF opened THEN (acquired \ deferred) \ {"crepo"}
                                           ELSE acquired \ deferred,
                                !.fails = IF opened THEN {}
                                          ELSE {[call |-> "ostree_repo_open",
                                                 cerr |-> o.cerr]}]
                /\ repo' = IF opened THEN r ELSE repo
                /\ config' = IF opened THEN disk ELSE config
                /\ pull' = SessionOver
                /\ UNCHANGED <<disk, crashed>>

(* ------------------------------- ResolveRev --------------------------- *)

\* Faulty variant of lines 63-70: a NULL out_rev is taken for a failure.
ResolveRevResultNullFails(o, ok) ==
    IF ~gobool(o.ret) \/ o.rev = <<>>
    THEN [out |-> <<>>, err |-> generateError(o.cerr, 64, ok)]
    ELSE [out |-> GoString(o.rev), err |-> NoError]

\* Lines 63-70.
ResolveRevResult(o, ok) ==
    IF ~gobool(o.ret)
    THEN [out |-> <<>>, err |-> generateError(o.cerr, 64, ok)]
    ELSE [out |-> GoString(o.rev), err |-> NoError]

ResolveRev(r, refspec, allowNoent) ==
    /\ ~crashed
    /\ ~SessionActive
    /\ \E o \in (IF native(r) = 0 THEN NullSelfOutcomes
                 ELSE ResolveOutcomes(allowNoent)) :
       \E ok \in CallerOk(o.ret, o.cerr) :
       IF o.crash
       THEN /\ crashed' = TRUE
            /\ UNCHANGED <<repo, config, disk, last, pull>>
       ELSE LET res == ResolveRevResult(o, ok)
                acquired == {"crefspec"} \cup
                            (IF o.rev # <<>> THEN {"coutrev"} ELSE {})
                released == {"crefspec"} \cup
                            (IF gobool(o.ret) THEN {"coutrev"} ELSE {})
            IN  /\ last' = [Returned("ResolveRev", r) EXCEPT
                                !.err = res.err,
                                !.out = res.out,
                                !.carg = CString(refspec),
                                !.trace = <<"ostree_repo_resolve_rev">>,
                                !.acquired = acquired,
                                !.leaked = acquired \ released,
                                !.fails = IF gobool(o.ret) THEN {}
                                          ELSE {[call |-> "ostree_repo_resolve_rev",
                                                 cerr |-> o.cerr]},
                                !.allowNoent = allowNoent,
                                !.lookup = o.lookup,
                                !.rev = o.rev]
                /\ pull' = SessionOver
                /\ UNCHANGED <<repo, config, disk, crashed>>

(* -------------------------- enableTombstoneCommits -------------------- *)

\* Faulty variant of line 163: the edit is made whatever was read.
TombstoneWriteAlways(valueC) == TRUE

\* Line 163: the edit is made when the value read is not true.
TombstoneWriteNeeded(valueC) == ~gobool(valueC)

enableTombstoneCommits(r) ==
    /\ ~crashed
    /\ ~SessionActive
    /\ IF ~isInitialized(r)
       THEN /\ last' = [Returned("enableTombstoneCommits", r) EXCEPT
                            !.err = errorsNew("repo not initialized")]
            /\ pull' = SessionOver
            /\ UNCHANGED <<repo, config, disk, crashed>>
       ELSE \E w \in WriteOutcomes : \E ok \in CallerOk(w.ret, w.cerr) :
            LET rd == g_key_file_get_boolean(config)
                edit == TombstoneWriteNeeded(rd.value)
                written == edit /\ gobool(w.ret)
                readFail == IF rd.failed
                            THEN {[call |-> "g_key_file_get_boolean", cerr |-> rd.cerr]}
                            ELSE {}
                writeFail == IF edit /\ ~gobool(w.ret)
                             THEN {[call |-> "ostree_repo_write_config", cerr |-> w.cerr]}
                             ELSE {}
            IN  /\ last' = [Returned("enableTombstoneCommits", r) EXCEPT
                                !.err = IF edit /\ ~gobool(w.ret)
                                        THEN generateError(w.cerr, 167, ok)
                                        ELSE NoError,
                                !.trace = <<"ostree_repo_get_config",
                                            "g_key_file_get_boolean">>
                                          \o (IF edit
                                              THEN <<"g_key_file_set_boolean",
                                                     "ostree_repo_write_config">>
                                              ELSE <<>>),
                                !.acquired = {"groupC", "keyC"},
                                !.leaked = {},
                                !.fails = readFail \cup writeFail]
                \* g_key_file_set_boolean edits the repo's own key file (the
                \* pointer ostree_repo_get_config returned) before the write.
                /\ config' = IF edit THEN "true" ELSE config
                /\ disk' = IF written THEN "true" ELSE disk
                /\ pull' = SessionOver
                /\ UNCHANGED <<repo, crashed>>

(* ------------------------------ PullWithOptions ----------------------- *)

SomeOptions ==
    {[OverrideRemoteName |-> o, Refs |-> rs] :
        o \in {<<>>, <<1>>}, rs \in {<<>>, << <<1>>, <<2>> >>}}

AllOptions == [OverrideRemoteName : GoStrings, Refs : RefLists]

Tokens == {"nil", "untriggered", "triggered"}

\* Faulty variant of lines 106-134: the refs block sits inside the
\* override-remote-name block.
SerializeRefsNested(options) ==
    IF options.OverrideRemoteName # <<>>
    THEN <<[key |-> "override-remote-name", type |-> "s",
            str |-> CString(options.OverrideRemoteName), strv |-> <<>>]>>
         \o (IF Len(options.Refs) # 0
             THEN <<[key |-> "refs", type |-> "as", str |-> <<>>,
                     strv |-> [i \in 1..Len(options.Refs) |->
                                  CString(options.Refs[i])]]>>
             ELSE <<>>)
    ELSE <<>>

\* Lines 106-134: the a{sv} builder's entries, in the order they are added.
Serialize(options) ==
    LET b1 == IF options.OverrideRemoteName # <<>>
              THEN <<[key |-> "override-remote-name", type |-> "s",
                      str |-> CString(options.OverrideRemoteName), strv |-> <<>>]>>
              ELSE <<>>
        b2 == IF Len(options.Refs) # 0
              THEN Append(b1, [key |-> "refs", type |-> "as", str |-> <<>>,
                               strv |-> [i \in 1..Len(options.Refs) |->
                                            CString(options.Refs[i])]])
              ELSE b1
    IN  b2

\* Native allocations of lines 103-131 that are live when the engine is called.
RequestResources(options) ==
    {"cremoteName", "typeStr", "builder"}
    \cup (IF options.OverrideRemoteName # <<>>
          THEN {"k_override", "fmt_override"} ELSE {})
    \cup (IF Len(options.Refs) # 0 THEN {"k_refs", "fmt_refs"} ELSE {})

\* What the deferred C.free calls of lines 104, 111 and 129 release.
PullDeferred == {"cremoteName", "k_override", "k_refs"}

\* Faulty variant of lines 138-142: the error pointer, not the return value,
\* decides.
PullResultByErrorPointer(o, ok) ==
    IF o.cerr # <<>> THEN generateError(o.cerr, 139, ok) ELSE NoError

\* Lines 138-142.
PullResult(o, ok) ==
    IF ~gobool(o.ret) THEN generateError(o.cerr, 139, ok) ELSE NoError

\* The state of a call made with these arguments, before line 101 runs.
Constructed(id, r, remoteName, options, progress, token) ==
    [NoSession EXCEPT !.id = id, !.state = "Constructed",
                      !.path = <<"Constructed">>, !.recv = r,
                      !.remote = CString(remoteName), !.options = options,
                      !.progress = progress, !.token = token]

\* The terminal state a returned call is in: PullWithOptions returns nil or an
\* error, nothing else.
PullState(err) == IF err = NoError THEN "Completed" ELSE "Failed"

\* Entry: the call is made with its arguments (state Constructed).
PullWithOptions ==
    /\ ~crashed
    /\ ~SessionActive
    /\ \E r \in Handles, remoteName \in RemoteNames, options \in SomeOptions,
          progress \in {0, 1}, token \in Tokens :
          pull' = Constructed(1 - pull.id, r, remoteName, options, progress, token)
    /\ last' = NoCall(config, disk)
    /\ UNCHANGED <<repo, config, disk, crashed>>

\* Lines 106-136: the options are serialized and the engine's pull is entered.
BuildRequest ==
    /\ ~crashed
    /\ pull.state = "Constructed"
    /\ pull' = [pull EXCEPT !.state = "Running",
                            !.path = Append(pull.path, "Running"),
                            !.request = Serialize(pull.options),
                            !.held = RequestResources(pull.options),
                            !.calls = pull.calls + 1]
    /\ UNCHANGED <<repo, config, disk, last, crashed>>

\* The caller's other thread triggers the token handed to the engine.
Cancel ==
    /\ ~crashed
    /\ SessionActive
    /\ pull.token = "untriggered"
    /\ pull' = [pull EXCEPT !.token = "triggered"]
    /\ UNCHANGED <<repo, config, disk, last, crashed>>

\* Lines 136-142: the engine's pull returns and so does PullWithOptions.
PullReturn ==
    /\ ~crashed
    /\ pull.state = "Running"
    /\ \E o \in (IF native(pull.recv) = 0 THEN NullSelfOutcomes
                 ELSE PullOutcomes(pull.token)) :
       \E ok \in CallerOk(o.ret, o.cerr) :
       IF o.crash
       THEN /\ crashed' = TRUE
            /\ UNCHANGED <<repo, config, disk, last, pull>>
       ELSE LET err == PullResult(o, ok)
            IN  /\ pull' = [pull EXCEPT
                                !.state = PullState(err),
                                !.path = Append(pull.path, PullState(err)),
                                !.outcome = o,
                                !.err = err,
                                !.held = pull.held \ PullDeferred]
                /\ last' = [Returned("PullWithOptions", pull.recv) EXCEPT
                                !.err = err,
                                !.carg = pull.remote,
                                !.trace = <<"ostree_repo_pull_with_options">>,
                                !.acquired = pull.held,
                                !.leaked = pull.held \ PullDeferred,
                                !.fails = IF gobool(o.ret) THEN {}
                                          ELSE {[call |-> "ostree_repo_pull_with_options",
                                                 cerr |-> o.cerr]}]
                /\ UNCHANGED <<repo, config, disk, crashed>>

(* ---------------------------- specifications -------------------------- *)

Next ==
    \/ \E path \in SomeStrings : OpenRepo(path)
    \/ \E r \in Handles, refspec \in SomeStrings, allowNoent \in BOOLEAN :
          ResolveRev(r, refspec, allowNoent)
    \/ \E r \in Handles : enableTombstoneCommits(r)
    \/ PullWithOptions
    \/ BuildRequest
    \/ Cancel
    \/ PullReturn

Spec == Init /\ [][Next]_vars

\* Serialization of every PullOptions value within the bounds: a call on the
\* open handle, entered with any options, runs to its return.
InitPull ==
    /\ repo = repoFromNative(OstreeRepoNew)
    /\ disk = "false"
    /\ config = disk
    /\ crashed = FALSE
    /\ last = NoCall(disk, disk)
    /\ \E remoteName \in RemoteNames, options \in AllOptions,
          progress \in {0, 1}, token \in Tokens :
          pull = Constructed(1, repo, remoteName, options, progress, token)

NextPull ==
    \/ BuildRequest
    \/ Cancel
    \/ PullReturn

SpecPull == InitPull /\ [][NextPull]_vars

(* ------------------------------- properties --------------------------- *)

Range(f) == {f[i] : i \in DOMAIN f}

Terminal == {"Completed", "Failed", "Cancelled"}

Unopened(r) == r.isNil \/ r.ptr = 0

HandleOps == {"ResolveRev", "enableTombstoneCommits", "PullWithOptions"}

\* C1: every operation on an unopened handle (nil handle or nil native
\* reference) returns NotInitialized without having called the engine and
\* without having changed the configuration.
C1_UnopenedReturnsNotInitialized ==
    (last.op \in HandleOps /\ Unopened(last.recv)) =>
        /\ Kind(last.op, last.err) = "NotInitialized"
        /\ last.trace = <<>>
        /\ <<config, disk>> = last.before

ConsecutiveEnable ==
    /\ last.op = "enableTombstoneCommits"
    /\ last.prev.op = "enableTombstoneCommits"
    /\ ~Unopened(last.recv)
    /\ last.prev.recv = last.recv

\* C2: the second of two consecutive EnableTombstoneCommits calls on the same
\* open handle writes no config and leaves the in-memory and persisted value
\* as the first call left them.
C2_EnableTombstoneIdempotent ==
    ConsecutiveEnable =>
        /\ "ostree_repo_write_config" \notin Range(last.trace)
        /\ "g_key_file_set_boolean" \notin Range(last.trace)
        /\ <<config, disk>> = last.before

C2_Witness ==
    /\ ConsecutiveEnable
    /\ "ostree_repo_write_config" \in Range(last.prev.trace)
    /\ last.err = NoError

\* C3: a pull on an open handle whose cancellation token was triggered before
\* it completed ends in the terminal state Cancelled, with an error of kind
\* Cancelled.
C3_CancelledIsTerminalState ==
    (pull.state \notin {"None", "Constructed", "Running"}
        /\ ~Unopened(pull.recv) /\ pull.token = "triggered") =>
        /\ pull.state = "Cancelled"
        /\ Kind("PullWithOptions", pull.err) = "Cancelled"

Serialized == pull.state \in {"Running", "Completed", "Failed"}

Entries(key) == {i \in DOMAIN pull.request : pull.request[i].key = key}

\* The request has the two optional entries exactly when the options are
\* non-empty, each at most once, and no other key.
RequestShape ==
    /\ (Entries("override-remote-name") # {}) <=> (pull.options.OverrideRemoteName # <<>>)
    /\ (Entries("refs") # {}) <=> (pull.options.Refs # <<>>)
    /\ Cardinality(Entries("override-remote-name")) <= 1
    /\ Cardinality(Entries("refs")) <= 1
    /\ \A i \in DOMAIN pull.request :
          pull.request[i].key \in {"override-remote-name", "refs"}
    /\ \A i \in Entries("override-remote-name") : pull.request[i].type = "s"
    /\ \A i \in Entries("refs") : pull.request[i].type = "as"
    /\ (pull.options = [OverrideRemoteName |-> <<>>, Refs |-> <<>>]) => (pull.request = <<>>)

\* p is s cut before its first NUL byte.
CutAtNul(p, s) ==
    /\ Len(p) <= Len(s)
    /\ \A i \in 1..Len(p) : p[i] = s[i] /\ p[i] # 0
    /\ Len(p) < Len(s) => s[Len(p) + 1] = 0

ResolvedOnOpen == last.op = "ResolveRev" /\ ~Unopened(last.recv)

\* C5: on an open handle, a refspec that does not resolve gives "" and no
\* error with allowMissing, and a ResolveFailed error with an empty result
\* without it; a refspec that resolves gives its checksum and no error.
C5_ResolveRevMissing ==
    ResolvedOnOpen =>
        /\ (last.lookup = "absent" /\ last.allowNoent) =>
              (last.out = <<>> /\ last.err = NoError)
        /\ (last.lookup = "absent" /\ ~last.allowNoent) =>
              (last.out = <<>> /\ Kind(last.op, last.err) = "ResolveFailed")
        /\ (last.lookup = "found") =>
              (last.rev # <<>> /\ last.out = last.rev[1] /\ last.err = NoError)

C5_Witness ==
    /\ ResolvedOnOpen
    /\ last.lookup = "absent"
    /\ last.allowNoent
    /\ last.out = <<>>
    /\ last.err = NoError

\* C6: OpenRepo with an empty path returns InvalidArgument and no handle,
\* having made no engine call and acquired no native resource.
C6_OpenEmptyPath ==
    (last.op = "OpenRepo" /\ last.emptyPath) =>
        /\ Kind(last.op, last.err) = "InvalidArgument"
        /\ last.repo = NilRepo
        /\ last.trace = <<>>
        /\ last.acquired = {}

C6_Witness ==
    /\ last.op = "OpenRepo"
    /\ last.emptyPath
    /\ last.err = errorsNew("empty path")
    /\ ~Unopened(repo)

\* C7: when OpenRepo or PullWithOptions returns, no native resource the call
\* acquired is left unreleased (the repository object of a successful open
\* is handed to the caller and does not count).
C7_NoNativeResourceLeft ==
    (last.op \in {"OpenRepo", "PullWithOptions"}) => (last.leaked = {})

\* C8: a pull on an open handle goes Constructed, Running, then exactly one
\* terminal state; the engine's pull is invoked once; the call returns no
\* error (Completed) iff the engine reports success and an error that carries
\* the engine's message (Failed) when it reports failure.
C8_SinglePullAttempt ==
    (pull.state # "None" /\ ~Unopened(pull.recv)) =>
        /\ pull.path[Len(pull.path)] = pull.state
        /\ pull.path \in {<<"Constructed">>, <<"Constructed", "Running">>,
                          <<"Constructed", "Running", "Completed">>,
                          <<"Constructed", "Running", "Failed">>}
        /\ pull.calls = (IF pull.state = "Constructed" THEN 0 ELSE 1)
        /\ (pull.state \in Terminal) =>
              /\ (pull.state = "Completed") <=> gobool(pull.outcome.ret)
              /\ (pull.state = "Completed") <=> (pull.err = NoError)
              /\ (pull.state = "Failed") <=> ~gobool(pull.outcome.ret)
              /\ (pull.outcome.cerr # <<>>) =>
                    /\ Kind("PullWithOptions", pull.err) = "PullFailed"
                    /\ pull.err.msg = pull.outcome.cerr[1]
              /\ last.op = "PullWithOptions"
              /\ last.err = pull.err
              /\ last.trace = <<"ostree_repo_pull_with_options">>

C8_Witness ==
    /\ pull.state = "Failed"
    /\ ~Unopened(pull.recv)
    /\ pull.token = "nil"
    /\ pull.outcome.cerr = <<"transfer failed">>
    /\ pull.calls = 1

\* C9: whenever EnableTombstoneCommits on an open handle returns without
\* error, the persisted core.tombstone-commits is true.
C9_SuccessMeansPersisted ==
    (last.op = "enableTombstoneCommits" /\ ~Unopened(last.recv)
        /\ last.err = NoError) => (disk = "true")

\* The operation that met engine failure f returned an error made from it by
\* one generateError call: the GError's message, or NilError without a GError.
Reported(f) ==
    /\ last.err # NoError
    /\ (f.cerr # <<>>) =>
          /\ last.err.origin = "GError"
          /\ last.err.msg = f.cerr[1]
          /\ last.err.wraps = 1
          /\ Len(last.err.sites) <= 1
    /\ (f.cerr = <<>>) => Kind(last.op, last.err) = "NilError"

\* C10 (as stated): every failure an engine call reported during the last
\* operation, the config read included, is returned wrapped once.
C10_NoFailureSwallowed == \A f \in last.fails : Reported(f)

\* C10 (amended): every failure reported by an engine call that is given a
\* GError out-parameter (open, resolve, config write, pull) is returned,
\* wrapped once, or as NilError when the engine supplied no error object; the
\* failure of the config read (key absent or unparsable) is not returned: the
\* value is read as false and the key is then set.
C10_ReportedFailuresReturned ==
    \A f \in last.fails : (f.call # "g_key_file_get_boolean") => Reported(f)

C10_Witness ==
    /\ last.op = "enableTombstoneCommits"
    /\ [call |-> "g_key_file_get_boolean", cerr |-> <<"key not found">>] \in last.fails
    /\ [call |-> "ostree_repo_write_config", cerr |-> <<"write failed">>] \in last.fails
    /\ last.err.msg = "write failed"

====
